---- MODULE Spec2Model ----
(***************************************************************************)
(* Model of retail/recommendation-system/bqml-scann/                       *)
(* 01_train_bqml_mf_pmi.ipynb: the stored procedure sp_ComputePMI, the     *)
(* stored procedure sp_TrainItemMatchingModel, and the Python cells        *)
(* process_results and the similarity exploration loop.                    *)
(*                                                                         *)
(* A BigQuery script is not transactional: every statement of a procedure  *)
(* commits on its own, and an error stops the script at the failing        *)
(* statement and leaves the tables as the earlier statements wrote them.   *)
(* Each statement of sp_ComputePMI is therefore one action.                *)
(*                                                                         *)
(* Tables are sets of rows (records) where the statement that builds them  *)
(* groups by a key, and bags of rows where it is built with UNION ALL      *)
(* (item_cooc).  vw_item_groups is a relation: a set of (item_Id,          *)
(* group_Id) rows.  Item ids are compared with <, as the code does; they   *)
(* are modelled by integers (any total order behaves alike).               *)
(***************************************************************************)
EXTENDS Integers, Naturals, Sequences, FiniteSets, Bags, TLC

\* ------------------------------------------------------------------ bounds
NumItems == 3
NumGroups == 2

Items == 1..NumItems
Groups == 1..NumGroups

\* the arguments the procedure is called with (the notebook passes 15, 100)
MinItemFrequencies == {0, 1, 2}
MaxGroupSizes == {1, 2, 10}
\* the values the name negative_sample_size may denote where it is bound
NegativeSampleSizes == {0, 2}
\* how often the cell that calls sp_ComputePMI is run
MaxCalls == 2
\* DECLARE dimensions INT64 DEFAULT 50
NumFactors == 50
\* the argument of sp_TrainItemMatchingModel (the notebook passes NumFactors)
Dimensions == {-1, NumFactors}

\* [0.0] * 100
EmbeddingLength == 100

\* the rows ML.WEIGHTS returns for the queried features: at most MaxRows rows, each
\* the factor weights of one feature (a feature has a row as user and a row as item)
MaxRows == 2
FeatureIds == 1..MaxRows
\* the factor indices the trainer exports for num_factors = NumFactors: the first
\* and the last
Factors == {1, NumFactors}
Weights == {-1, 2}
FactorWeights == [factor : Factors, weight : Weights]
FactorWeightLists == UNION { [1..n -> FactorWeights] : n \in {0, 1, 2} }
ResultRows == [feature : FeatureIds, factor_weights : FactorWeightLists]
\* process_results and the exploration loop read a feature only to compare it with
\* another and to look up its title, so the features are numbered in the order
\* they first appear
InOrderOfAppearance(results) ==
  \A k \in 1..Len(results) :
     \/ results[k].feature = 1
     \/ \E j \in 1..(k - 1) : results[j].feature >= results[k].feature - 1
Results ==
  { r \in UNION { [1..n -> ResultRows] : n \in 0..MaxRows } : InOrderOfAppearance(r) }

\* rows as process_results accepts them, whatever produced them: one factor weight
\* a row, the factor at, next to and beyond the two ends of the list
AnyFactors == {-EmbeddingLength, 0, 1, NumFactors, EmbeddingLength, EmbeddingLength + 1}
AnyFactorWeights == [factor : AnyFactors, weight : Weights]
AnyResultRows ==
  [feature : FeatureIds, factor_weights : {<<e>> : e \in AnyFactorWeights}]
AnyResults ==
  { r \in UNION { [1..n -> AnyResultRows] : n \in 0..MaxRows } : InOrderOfAppearance(r) }

\* the views the scores are examined on: item 1 in the first groups, item 2 in
\* the last groups, item 3 in every group but at most MaxHoles; with
\* NumScoreGroups groups a pair of items can co-occur less often than, as
\* often as, and more often than chance
NumScoreGroups == 7
MaxHoles == 2
ScoreGroups == 1..NumScoreGroups
ScoreView(n1, n2, H) ==
  {[item_Id |-> 1, group_Id |-> g] : g \in 1..n1}
    \cup {[item_Id |-> 2, group_Id |-> g] : g \in (NumScoreGroups - n2 + 1)..NumScoreGroups}
    \cup {[item_Id |-> 3, group_Id |-> g] : g \in ScoreGroups \ H}
ScoreViews ==
  { ScoreView(n1, n2, H) :
      n1 \in 0..NumScoreGroups, n2 \in 0..NumScoreGroups,
      H \in {S \in SUBSET ScoreGroups : Cardinality(S) <= MaxHoles} }

VARIABLES
  vw_item_groups,       \* the input view: set of [item_Id, group_Id]
  min_item_frequency,   \* IN parameter
  max_group_size,       \* IN parameter
  negative_sample_size, \* what the name denotes at line 479: <<>> unbound, <<n>> bound
  total,                \* DECLARE total INT64: <<>> is NULL, <<n>> a value
  valid_item_groups,    \* table: set of [item_Id, group_Id]
  item_cooc,            \* table: bag of [item1_Id, item2_Id, cooc (, pmi)]
  item_frequency,       \* table: set of [item_Id, frequency]
  item_matching_model,  \* the model artifact: <<>> absent, <<m>> created
  replaced,             \* the tables and models CREATE OR REPLACE has written since
                        \* the last CALL of sp_ComputePMI
  item_cooc_columns,    \* the columns item_cooc was last created with
  pc,                   \* the statement the script is at
  calls,                \* the number of CALLs of sp_ComputePMI so far
  err,                  \* the error that stopped the script, "" if none
  song_embeddings,      \* the rows ML.WEIGHTS returned: sequence of [feature, factor_weights]
  item_embeddings,      \* the dict process_results returned, in insertion order:
                        \* sequence of [item, embedding]
  idx1,                 \* the outer loop index of the exploration cell
  printed,              \* what the exploration cell has printed: sequence of
                        \* [title, similar], similar a sequence of [title, similarity]
  ppc                   \* the Python cell the notebook is at

sqlvars == <<vw_item_groups, min_item_frequency, max_group_size, negative_sample_size,
             total, valid_item_groups, item_cooc, item_frequency, item_matching_model,
             replaced, item_cooc_columns, pc, calls, err>>
pyvars == <<song_embeddings, item_embeddings, idx1, printed, ppc>>
vars == <<sqlvars, pyvars>>

NULL == <<>>

\* ------------------------------------------------------------ SQL helpers
RECURSIVE SumCooc(_, _)
\* SUM(cooc) over the rows `rows` of the bag B, each counted as often as it occurs
SumCooc(rows, B) ==
  IF rows = {} THEN 0
  ELSE LET r == CHOOSE x \in rows : TRUE
       IN  r.cooc * CopiesIn(r, B) + SumCooc(rows \ {r}, B)

RECURSIVE SumFrequency(_)
\* SUM(frequency) over the rows of item_frequency
SumFrequency(rows) ==
  IF rows = {} THEN 0
  ELSE LET r == CHOOSE x \in rows : TRUE
       IN  r.frequency + SumFrequency(rows \ {r})

\* SELECT item_Id, COUNT(group_Id) ... GROUP BY item_Id
CountByItem(rel) ==
  { [item_Id |-> i, n |-> Cardinality({m \in rel : m.item_Id = i})] :
      i \in {m.item_Id : m \in rel} }

\* SELECT group_Id, COUNT(item_Id) ... GROUP BY group_Id
CountByGroup(rel) ==
  { [group_Id |-> g, n |-> Cardinality({m \in rel : m.group_Id = g})] :
      g \in {m.group_Id : m \in rel} }

\* CTE valid_items: item_frequency >= min_item_frequency over the view
valid_items(vw, min_freq) ==
  { [item_Id |-> r.item_Id, item_frequency |-> r.n] :
      r \in {c \in CountByItem(vw) : c.n >= min_freq} }

\* mutant: the group size counted over every member of the view
valid_groups_all_members(vw, vi, max_size) ==
  { [group_Id |-> r.group_Id, group_size |-> r.n] :
      r \in {c \in CountByGroup(vw) : c.n >= 2 /\ c.n <= max_size} }

\* CTE valid_groups: counted over the rows WHERE item_Id IN valid_items,
\* HAVING group_size BETWEEN 2 AND max_group_size
valid_groups(vw, vi, max_size) ==
  LET kept == {m \in vw : m.item_Id \in {v.item_Id : v \in vi}}
  IN  { [group_Id |-> r.group_Id, group_size |-> r.n] :
          r \in {c \in CountByGroup(kept) : c.n >= 2 /\ c.n <= max_size} }

\* the SELECT that fills valid_item_groups
ValidItemGroups(vw, min_freq, max_size) ==
  LET vi == valid_items(vw, min_freq)
      vg == valid_groups(vw, vi, max_size)
  IN  { m \in vw : /\ m.item_Id \in {v.item_Id : v \in vi}
                   /\ m.group_Id \in {g.group_Id : g \in vg} }

\* mutant: the join condition a.item_Id != b.item_Id, each pair in both orders
CoocJoinUnordered(vig) ==
  { p \in vig \X vig : p[1].group_Id = p[2].group_Id /\ p[1].item_Id # p[2].item_Id }

\* the inner SELECT of the pairwise step: valid_item_groups a JOIN valid_item_groups b
\* ON a.group_Id = b.group_Id AND a.item_Id < b.item_Id, one row (with cooc 1) per match
CoocJoin(vig) ==
  { p \in vig \X vig : p[1].group_Id = p[2].group_Id /\ p[1].item_Id < p[2].item_Id }

\* the rows the inner SELECT returns: item1_Id, item2_Id, 1 AS cooc, a bag
\* (the same row once per group the two items share)
CoocRows(vig) ==
  LET j == CoocJoin(vig)
      Row(p) == [item1_Id |-> p[1].item_Id, item2_Id |-> p[2].item_Id, cooc |-> 1]
  IN  [ r \in {Row(p) : p \in j} |-> Cardinality({p \in j : Row(p) = r}) ]

\* SELECT item1_Id, item2_Id, SUM(cooc) ... GROUP BY item1_Id, item2_Id
GroupSumCooc(rows) ==
  LET keys == { <<r.item1_Id, r.item2_Id>> : r \in BagToSet(rows) }
  IN  SetToBag({ [item1_Id |-> k[1], item2_Id |-> k[2],
                  cooc |-> SumCooc({r \in BagToSet(rows) :
                                      r.item1_Id = k[1] /\ r.item2_Id = k[2]}, rows)] :
                 k \in keys })

\* mutant: the 1 of each matched row kept instead of summed
PairwiseCoocNoSum(vig) == SetToBag(BagToSet(CoocRows(vig)))

\* mutant: the pairs joined over the view instead of the filtered table
PairwiseCoocOfView(vig) == GroupSumCooc(CoocRows(vw_item_groups))

\* mutant: the pairs inserted into item_cooc as it is, the table not replaced
PairwiseCoocInserted(vig) == item_cooc (+) GroupSumCooc(CoocRows(vig))

\* the statement that first creates item_cooc, from valid_item_groups
PairwiseCooc(vig) == GroupSumCooc(CoocRows(vig))

\* mutant: the frequency taken from the view instead of the filtered table
ItemFrequencyOfView(vig) ==
  { [item_Id |-> r.item_Id, frequency |-> r.n] :
      r \in {c \in CountByItem(vw_item_groups) : c.item_Id \in {m.item_Id : m \in vig}} }

\* SELECT item_Id, COUNT(group_Id) AS frequency FROM valid_item_groups GROUP BY item_Id
ItemFrequency(vig) ==
  { [item_Id |-> r.item_Id, frequency |-> r.n] : r \in CountByItem(vig) }

\* SET total = (SELECT SUM(frequency) FROM item_frequency): NULL over no rows
TotalFrequency(freq) ==
  IF freq = {} THEN NULL ELSE <<SumFrequency(freq)>>

\* SELECT item_Id, item_Id, frequency FROM item_frequency
SelfPairs(freq) ==
  SetToBag({ [item1_Id |-> f.item_Id, item2_Id |-> f.item_Id, cooc |-> f.frequency] :
               f \in freq })

\* item_cooc UNION ALL the self pairs
AddSelfPairs(cooc, freq) == cooc (+) SelfPairs(freq)

\* the names the procedure body may use as variables: its two IN parameters
\* and the variable it declares
DeclaredNames == {"min_item_frequency", "max_group_size", "total"}

\* ROW_NUMBER() OVER (ORDER BY frequency DESC) ... WHERE number <= n: the sets of
\* items the numbering may select (rows of equal frequency are numbered in any order)
TopItems(freq, n) ==
  { T \in SUBSET {f.item_Id : f \in freq} :
      /\ Cardinality(T) = IF n < Cardinality(freq) THEN n ELSE Cardinality(freq)
      /\ \A f \in freq, g \in freq :
           (f.item_Id \in T /\ g.item_Id \notin T) => f.frequency >= g.frequency }

\* the columns of the CTE top_items, and the columns the CTE negative_samples
\* reads from it (a.item, b.item in the select list, a.item_Id, b.item_Id in ON)
TopItemsColumns == {"item_Id"}
NegativeSamplesReads == {"item", "item_Id"}

\* top_items a JOIN top_items b ON a.item_Id < b.item_Id, each with cooc 1
NegativeSamples(top) ==
  SetToBag({ [item1_Id |-> p[1], item2_Id |-> p[2], cooc |-> 1] :
               p \in {q \in top \X top : q[1] < q[2]} })

\* SELECT item1_Id, item2_Id, MAX(cooc) FROM merged GROUP BY item1_Id, item2_Id
MaxMerged(cooc, top) ==
  LET merged == BagToSet(cooc (+) NegativeSamples(top))
      keys == { <<r.item1_Id, r.item2_Id>> : r \in merged }
      Max(k) == CHOOSE c \in {r.cooc : r \in {x \in merged : <<x.item1_Id, x.item2_Id>> = k}} :
                  \A r \in merged : <<r.item1_Id, r.item2_Id>> = k => r.cooc <= c
  IN  SetToBag({ [item1_Id |-> k[1], item2_Id |-> k[2], cooc |-> Max(k)] : k \in keys })

\* item_cooc a JOIN item_frequency b ON a.item1_Id = b.item_Id
\*             JOIN item_frequency c ON a.item2_Id = c.item_Id
PMIJoin(cooc, freq) ==
  { t \in BagToSet(cooc) \X freq \X freq :
      t[1].item1_Id = t[2].item_Id /\ t[1].item2_Id = t[3].item_Id }

\* LOG(x, 2) raises an error for x <= 0 and is NULL for NULL
LogDomainError(cooc, freq, tot) ==
  \E t \in PMIJoin(cooc, freq) :
     \/ t[1].cooc <= 0
     \/ t[2].frequency <= 0
     \/ t[3].frequency <= 0
     \/ (tot # NULL /\ tot[1] <= 0)

\* ------------------------------------------------------------------ FLOAT64
\* LOG returns FLOAT64, and - and + on FLOAT64 round to the nearest FLOAT64, ties
\* to even.  A FLOAT64 of magnitude below 2^4 that is a multiple of 2^-52 is kept
\* as <<hi, lo>>, the number (hi * Radix + lo) * 2^-52 with 0 <= lo < Radix.
Radix == 2^26

FloatZero == <<0, 0>>

\* -x
FloatNeg(x) == IF x[2] = 0 THEN <<-x[1], 0>> ELSE <<-x[1] - 1, Radix - x[2]>>

\* x + y before rounding
ExactSum(x, y) ==
  LET lo == x[2] + y[2]
  IN  IF lo >= Radix THEN <<x[1] + y[1] + 1, lo - Radix>> ELSE <<x[1] + y[1], lo>>

\* the spacing of the FLOAT64s around a magnitude m >= 0, in units of 2^-52:
\* 1 below 2, 2 in [2, 4), 4 in [4, 8), 8 in [8, 16)
Quantum(m) ==
  IF m[1] < 2 * Radix THEN 1
  ELSE IF m[1] < 4 * Radix THEN 2
  ELSE IF m[1] < 8 * Radix THEN 4
  ELSE 8

\* the FLOAT64 nearest to a magnitude m >= 0, ties to the even significand
RoundMagnitude(m) ==
  LET q == Quantum(m)
      r == m[2] % q
      down == m[2] - r
      lo == IF 2 * r < q THEN down
            ELSE IF 2 * r > q THEN down + q
            ELSE IF (down \div q) % 2 = 0 THEN down ELSE down + q
  IN  IF lo = Radix THEN <<m[1] + 1, 0>> ELSE <<m[1], lo>>

RoundToFloat64(x) ==
  IF x[1] >= 0 THEN RoundMagnitude(x) ELSE FloatNeg(RoundMagnitude(FloatNeg(x)))

\* x + y and x - y on FLOAT64
FloatAdd(x, y) == RoundToFloat64(ExactSum(x, y))
FloatSub(x, y) == RoundToFloat64(ExactSum(x, FloatNeg(y)))

\* -1, 0 or 1
FloatSign(x) == IF x[1] < 0 THEN -1 ELSE IF x = FloatZero THEN 0 ELSE 1

\* LOG(x, 2) for x = 1, 2, ..., as the FLOAT64 nearest to the logarithm (log2 of
\* the C library)
Log2Nearest ==
  << <<0, 0>>, <<67108864, 0>>, <<106365032, 60800360>>, <<134217728, 0>>,
     <<155821956, 49497826>>, <<173473896, 60800360>>, <<188398399, 44566618>>, <<201326592, 0>>,
     <<212730065, 54491856>>, <<222930820, 49497826>>, <<232158526, 834180>>, <<240582760, 60800360>>,
     <<248332305, 52675686>>, <<255507263, 44566618>>, <<262186989, 43189324>>, <<268435456, 0>>,
     <<274304987, 61641008>>, <<279838929, 54491856>>, <<285073589, 52448512>>, <<290039684, 49497828>>,
     <<294763432, 38258116>>, <<299267390, 834180>>, <<303571104, 7019860>>, <<307691624, 60800360>>,
     <<311643913, 31886788>>, <<315441169, 52675684>>, <<319095098, 48183352>>, <<322616127, 44566616>>,
     <<326013585, 61512044>>, <<329295853, 43189324>>, <<332470486, 28390712>>, <<335544320, 0>> >>

\* LOG(x, 2) for x = 1, 2, ..., as the FLOAT64 quotient ln(x) / ln(2) of the C library
LnOverLn2 ==
  << <<0, 0>>, <<67108864, 0>>, <<106365032, 60800361>>, <<134217728, 0>>,
     <<155821956, 49497826>>, <<173473896, 60800360>>, <<188398399, 44566618>>, <<201326592, 0>>,
     <<212730065, 54491858>>, <<222930820, 49497828>>, <<232158526, 834182>>, <<240582760, 60800362>>,
     <<248332305, 52675686>>, <<255507263, 44566616>>, <<262186989, 43189324>>, <<268435456, 0>>,
     <<274304987, 61641012>>, <<279838929, 54491856>>, <<285073589, 52448512>>, <<290039684, 49497828>>,
     <<294763432, 38258116>>, <<299267390, 834180>>, <<303571104, 7019860>>, <<307691624, 60800364>>,
     <<311643913, 31886788>>, <<315441169, 52675688>>, <<319095098, 48183356>>, <<322616127, 44566616>>,
     <<326013585, 61512048>>, <<329295853, 43189324>>, <<332470486, 28390716>>, <<335544320, 0>> >>

\* the engine's LOG is one function; which of the two it is the source does not fix
LogImplementations == {Log2Nearest, LnOverLn2}

\* LOG(a.cooc, 2) - LOG(b.frequency, 2) - LOG(c.frequency, 2) + LOG(total, 2),
\* evaluated from left to right; NULL when total is NULL
PMIValue(LOG, cooc, freq1, freq2, tot) ==
  IF tot = NULL THEN NULL
  ELSE <<FloatAdd(FloatSub(FloatSub(LOG[cooc], LOG[freq1]), LOG[freq2]), LOG[tot[1]])>>

\* one output row of the PMI statement; pmi holds the FLOAT64 the expression
\* yields (value) next to the four arguments of LOG it was computed from
PMIRow(t, tot, LOG) ==
  [item1_Id |-> t[1].item1_Id, item2_Id |-> t[1].item2_Id, cooc |-> t[1].cooc,
   pmi |-> [cooc |-> t[1].cooc, freq1 |-> t[2].frequency, freq2 |-> t[3].frequency,
            total |-> tot,
            value |-> PMIValue(LOG, t[1].cooc, t[2].frequency, t[3].frequency, tot)]]

RECURSIVE SumCopies(_, _)
\* the number of joined rows in ts, each row of the bag B counted as often as it occurs
SumCopies(ts, B) ==
  IF ts = {} THEN 0
  ELSE LET t == CHOOSE x \in ts : TRUE
       IN  CopiesIn(t[1], B) + SumCopies(ts \ {t}, B)

\* the table the PMI statement creates
ComputePMI(cooc, freq, tot, LOG) ==
  LET j == PMIJoin(cooc, freq)
  IN  [ r \in {PMIRow(t, tot, LOG) : t \in j} |->
          SumCopies({t \in j : PMIRow(t, tot, LOG) = r}, cooc) ]

\* cooc * pmi AS score: cooc is an INT64 and pmi a FLOAT64, and the FLOAT64 product
\* of two numbers of these magnitudes is 0 only if one of them is, and has the
\* sign of the exact product; the score is kept as its two factors
Score(cooc, pmi) == [cooc |-> cooc, pmi |-> pmi]

\* the sign of a score: NULL if pmi is NULL, else <<-1>>, <<0>> or <<1>>
ScoreSign(score) ==
  IF score.pmi.value = NULL THEN NULL
  ELSE <<(IF score.cooc > 0 THEN 1 ELSE IF score.cooc < 0 THEN -1 ELSE 0)
           * FloatSign(score.pmi.value[1])>>

\* SELECT item1_Id, item2_Id, cooc * pmi AS score FROM item_cooc
TrainingInput(cooc) ==
  LET Row(r) == [item1_Id |-> r.item1_Id, item2_Id |-> r.item2_Id,
                 score |-> Score(r.cooc, r.pmi)]
      rows == BagToSet(cooc)
  IN  [ o \in {Row(r) : r \in rows} |->
          SumCopies({<<r>> : r \in {x \in rows : Row(x) = o}}, cooc) ]

\* "View the cooccurrence data": SELECT a.item1_Id, a.item2_Id, b.frequency AS
\* freq1, c.frequency AS freq2, a.cooc, a.pmi, a.cooc * a.pmi AS score ... WHERE
\* a.item1_Id != a.item2_Id ORDER BY score DESC LIMIT 10; the rows it selects
\* from (with three items there are at most three, so LIMIT 10 drops none)
CoocView(cooc, freq) ==
  { [item1_Id |-> t[1].item1_Id, item2_Id |-> t[1].item2_Id,
     freq1 |-> t[2].frequency, freq2 |-> t[3].frequency,
     cooc |-> t[1].cooc, pmi |-> t[1].pmi, score |-> Score(t[1].cooc, t[1].pmi)] :
      t \in {j \in PMIJoin(cooc, freq) : j[1].item1_Id # j[1].item2_Id} }

\* ----------------------------------------------------------- sp_ComputePMI
CoocColumns == {"item1_Id", "item2_Id", "cooc"}

\* CALL recommendations.sp_ComputePMI(min_item_frequency, max_group_size)
Call(min_freq, max_size) ==
  /\ pc = "idle"
  /\ min_item_frequency' = min_freq
  /\ max_group_size' = max_size
  /\ total' = NULL
  /\ pc' = "valid_item_groups"
  /\ calls' = 1
  /\ UNCHANGED <<vw_item_groups, negative_sample_size, valid_item_groups, item_cooc,
                 item_frequency, item_matching_model, replaced, item_cooc_columns, err>>
  /\ UNCHANGED pyvars

\* the cell with CALL recommendations.sp_ComputePMI run again, after the script
\* of the last run has ended: the variables of the script are new, the tables
\* and the model are as the last run left them
CallAgain(min_freq, max_size) ==
  /\ pc \in {"done", "error", "trained", "train_error"}
  /\ calls < MaxCalls
  /\ min_item_frequency' = min_freq
  /\ max_group_size' = max_size
  /\ total' = NULL
  /\ negative_sample_size' = NULL
  /\ replaced' = {}
  /\ err' = ""
  /\ pc' = "valid_item_groups"
  /\ calls' = calls + 1
  /\ UNCHANGED <<vw_item_groups, valid_item_groups, item_cooc, item_frequency,
                 item_matching_model, item_cooc_columns>>
  /\ UNCHANGED pyvars

\* CREATE OR REPLACE TABLE valid_item_groups
CreateValidItemGroups ==
  /\ pc = "valid_item_groups"
  /\ valid_item_groups' = ValidItemGroups(vw_item_groups, min_item_frequency, max_group_size)
  /\ replaced' = replaced \cup {"valid_item_groups"}
  /\ pc' = "pairwise_cooc"
  /\ UNCHANGED <<calls, vw_item_groups, min_item_frequency, max_group_size, negative_sample_size,
                 total, item_cooc, item_frequency, item_matching_model,
                 item_cooc_columns, err>>
  /\ UNCHANGED pyvars

\* CREATE OR REPLACE TABLE item_cooc (pairwise cooc)
CreatePairwiseCooc ==
  /\ pc = "pairwise_cooc"
  /\ item_cooc' = PairwiseCooc(valid_item_groups)
  /\ item_cooc_columns' = CoocColumns
  /\ replaced' = replaced \cup {"item_cooc"}
  /\ pc' = "item_frequency"
  /\ UNCHANGED <<calls, vw_item_groups, min_item_frequency, max_group_size, negative_sample_size,
                 total, valid_item_groups, item_frequency, item_matching_model, err>>
  /\ UNCHANGED pyvars

\* CREATE OR REPLACE TABLE item_frequency
CreateItemFrequency ==
  /\ pc = "item_frequency"
  /\ item_frequency' = ItemFrequency(valid_item_groups)
  /\ replaced' = replaced \cup {"item_frequency"}
  /\ pc' = "total"
  /\ UNCHANGED <<calls, vw_item_groups, min_item_frequency, max_group_size, negative_sample_size,
                 total, valid_item_groups, item_cooc, item_matching_model,
                 item_cooc_columns, err>>
  /\ UNCHANGED pyvars

\* SET total = (SELECT SUM(frequency) ...)
SetTotal ==
  /\ pc = "total"
  /\ total' = TotalFrequency(item_frequency)
  /\ pc' = "self_pairs"
  /\ UNCHANGED <<calls, vw_item_groups, min_item_frequency, max_group_size, negative_sample_size,
                 valid_item_groups, item_cooc, item_frequency, item_matching_model,
                 replaced, item_cooc_columns, err>>
  /\ UNCHANGED pyvars

\* CREATE OR REPLACE TABLE item_cooc (add same item frequency as cooc)
CreateSelfPairs ==
  /\ pc = "self_pairs"
  /\ item_cooc' = AddSelfPairs(item_cooc, item_frequency)
  /\ item_cooc_columns' = CoocColumns
  /\ replaced' = replaced \cup {"item_cooc"}
  /\ pc' = "if_negative_sample_size"
  /\ UNCHANGED <<calls, vw_item_groups, min_item_frequency, max_group_size, negative_sample_size,
                 total, valid_item_groups, item_frequency, item_matching_model, err>>
  /\ UNCHANGED pyvars

\* IF negative_sample_size > 0 THEN: the name is neither a parameter nor declared
\* in the body, so the condition cannot be evaluated and the script stops
IfUnrecognizedName ==
  /\ pc = "if_negative_sample_size"
  /\ "negative_sample_size" \notin DeclaredNames
  /\ pc' = "error"
  /\ err' = "Unrecognized name: negative_sample_size"
  /\ UNCHANGED <<calls, vw_item_groups, min_item_frequency, max_group_size, negative_sample_size,
                 total, valid_item_groups, item_cooc, item_frequency, item_matching_model,
                 replaced, item_cooc_columns>>
  /\ UNCHANGED pyvars

\* IF negative_sample_size > 0 THEN ... END IF, read with the name bound to n:
\* the statements from line 479 on as they run once the condition has a value
IfNegativeSampleSize(n) ==
  /\ pc = "if_negative_sample_size"
  /\ negative_sample_size' = <<n>>
  /\ pc' = IF n > 0 THEN "negative_samples" ELSE "pmi"
  /\ UNCHANGED <<calls, vw_item_groups, min_item_frequency, max_group_size,
                 total, valid_item_groups, item_cooc, item_frequency, item_matching_model,
                 replaced, item_cooc_columns, err>>
  /\ UNCHANGED pyvars

\* CREATE OR REPLACE TABLE item_cooc (negative samples): the query is analysed
\* before it runs, and negative_samples selects a.item and b.item from top_items,
\* which has the one column item_Id
CreateNegativeSamples ==
  /\ pc = "negative_samples"
  /\ IF NegativeSamplesReads \subseteq TopItemsColumns
     THEN /\ \E top \in TopItems(item_frequency, negative_sample_size[1]) :
               item_cooc' = MaxMerged(item_cooc, top)
          /\ item_cooc_columns' = CoocColumns
          /\ replaced' = replaced \cup {"item_cooc"}
          /\ pc' = "pmi"
          /\ err' = err
     ELSE /\ pc' = "error"
          /\ err' = "Name item not found inside a"
          /\ UNCHANGED <<item_cooc, item_cooc_columns, replaced>>
  /\ UNCHANGED <<calls, vw_item_groups, min_item_frequency, max_group_size, negative_sample_size,
                 total, valid_item_groups, item_frequency, item_matching_model>>
  /\ UNCHANGED pyvars

\* CREATE OR REPLACE TABLE item_cooc (compute PMI)
CreatePMI ==
  /\ pc = "pmi"
  /\ IF LogDomainError(item_cooc, item_frequency, total)
     THEN /\ pc' = "error"
          /\ err' = "LOG is undefined for zero or negative value"
          /\ UNCHANGED <<item_cooc, item_cooc_columns, replaced>>
     ELSE /\ \E LOG \in LogImplementations :
               item_cooc' = ComputePMI(item_cooc, item_frequency, total, LOG)
          /\ item_cooc_columns' = CoocColumns \cup {"pmi"}
          /\ replaced' = replaced \cup {"item_cooc"}
          /\ pc' = "done"
          /\ err' = err
  /\ UNCHANGED <<calls, vw_item_groups, min_item_frequency, max_group_size, negative_sample_size,
                 total, valid_item_groups, item_frequency, item_matching_model>>
  /\ UNCHANGED pyvars

\* ------------------------------------------------- sp_TrainItemMatchingModel
\* CALL sp_TrainItemMatchingModel(dimensions) when item_cooc has no column pmi:
\* the SELECT cooc * pmi cannot be analysed
TrainWithoutPmi(dimensions) ==
  /\ pc \in {"done", "error"}
  /\ "pmi" \notin item_cooc_columns
  /\ pc' = "train_error"
  /\ err' = "Unrecognized name: pmi"
  /\ UNCHANGED <<calls, vw_item_groups, min_item_frequency, max_group_size, negative_sample_size,
                 total, valid_item_groups, item_cooc, item_frequency, item_matching_model,
                 replaced, item_cooc_columns>>
  /\ UNCHANGED pyvars

\* CREATE OR REPLACE MODEL item_matching_model: the procedure hands dimensions
\* and the scored rows to the trainer, which creates the model
TrainCreated(dimensions) ==
  /\ pc \in {"done", "error"}
  /\ "pmi" \in item_cooc_columns
  /\ item_matching_model' = <<[num_factors |-> dimensions, input |-> TrainingInput(item_cooc)]>>
  /\ replaced' = replaced \cup {"item_matching_model"}
  /\ pc' = "trained"
  /\ UNCHANGED <<calls, vw_item_groups, min_item_frequency, max_group_size, negative_sample_size,
                 total, valid_item_groups, item_cooc, item_frequency, item_cooc_columns, err>>
  /\ UNCHANGED pyvars

\* CREATE OR REPLACE MODEL item_matching_model: the trainer (an external
\* service) refuses the statement
TrainRefused(dimensions) ==
  /\ pc \in {"done", "error"}
  /\ "pmi" \in item_cooc_columns
  /\ pc' = "train_error"
  /\ err' = "CREATE MODEL failed"
  /\ UNCHANGED <<calls, vw_item_groups, min_item_frequency, max_group_size, negative_sample_size,
                 total, valid_item_groups, item_cooc, item_frequency, item_matching_model,
                 replaced, item_cooc_columns>>
  /\ UNCHANGED pyvars

\* ------------------------------------------------------------ process_results
\* songs: the title of each queried feature (one title per feature)
songs(item) == <<"title", item>>

RECURSIVE Unique(_)
\* list(results['feature'].unique()): the features in order of first appearance
Unique(features) ==
  IF features = <<>> THEN <<>>
  ELSE LET rest == Unique(SubSeq(features, 1, Len(features) - 1))
           last == features[Len(features)]
       IN  IF \E i \in 1..Len(rest) : rest[i] = last THEN rest ELSE Append(rest, last)

\* the position a Python list of length n gives to index i: <<p>>, or <<>> for
\* an IndexError (a negative index counts from the end)
ListIndex(i, n) ==
  IF 0 <= i /\ i < n THEN <<i>>
  ELSE IF -n <= i /\ i < 0 THEN <<i + n>>
  ELSE <<>>

\* mutant: the weight assigned instead of added
SetWeight(emebedding, factor, weight) ==
  [emebedding EXCEPT ![ListIndex(factor - 1, EmbeddingLength)[1]] = weight]

\* emebedding[element['factor'] - 1] += element['weight']
AddWeight(emebedding, factor, weight) ==
  [emebedding EXCEPT ![ListIndex(factor - 1, EmbeddingLength)[1]] = @ + weight]

RECURSIVE AddFactorWeights(_, _)
\* for _, element in enumerate(factor_weights): ...
AddFactorWeights(emebedding, factor_weights) ==
  IF factor_weights = <<>> THEN emebedding
  ELSE AddFactorWeights(
         AddWeight(emebedding, Head(factor_weights).factor, Head(factor_weights).weight),
         Tail(factor_weights))

RECURSIVE AddRows(_, _, _)
\* for _, row in embedding_pair.iterrows(): ... over the rows of this item
AddRows(emebedding, results, item) ==
  IF results = <<>> THEN emebedding
  ELSE AddRows(
         IF Head(results).feature = item
         THEN AddFactorWeights(emebedding, Head(results).factor_weights)
         ELSE emebedding,
         Tail(results), item)

\* some emebedding[element['factor'] - 1] raises IndexError
RaisesIndexError(results) ==
  \E r \in 1..Len(results) : \E e \in 1..Len(results[r].factor_weights) :
     ListIndex(results[r].factor_weights[e].factor - 1, EmbeddingLength) = <<>>

\* def process_results(results): the dict it returns, in insertion order
process_results(results) ==
  LET items == Unique([r \in 1..Len(results) |-> results[r].feature])
  IN  [ k \in 1..Len(items) |->
          [item |-> items[k],
           embedding |-> AddRows([i \in 0..(EmbeddingLength - 1) |-> 0], results, items[k])] ]

\* item_embeddings = process_results(song_embeddings)
ProcessResults ==
  /\ ppc = "process_results"
  /\ IF RaisesIndexError(song_embeddings)
     THEN /\ ppc' = "error"
          /\ UNCHANGED item_embeddings
     ELSE /\ item_embeddings' = process_results(song_embeddings)
          /\ ppc' = "explore"
  /\ UNCHANGED <<song_embeddings, idx1, printed>>
  /\ UNCHANGED sqlvars

\* ------------------------------------------------------- similarity exploration
RECURSIVE SumProducts(_, _, _)
\* the sum of u[i] * v[i] over the positions in I
SumProducts(u, v, I) ==
  IF I = {} THEN 0
  ELSE LET i == CHOOSE j \in I : TRUE
       IN  u[i] * v[i] + SumProducts(u, v, I \ {i})

\* the dot product of two embeddings (the positions where a factor is 0 add 0)
Dot(u, v) == SumProducts(u, v, {i \in DOMAIN u : u[i] # 0 /\ v[i] # 0})

RECURSIVE Gcd(_, _)
Gcd(a, b) == IF b = 0 THEN a ELSE Gcd(b, a % b)

\* round(cosine_similarity([embedding1], [embedding2])[0][0], 5).  The cosine
\* dot / (|u| |v|) is kept exactly, as its sign and its square in lowest terms;
\* sklearn normalises a zero vector to itself, so the cosine with it is 0.
\* On the vectors the bounded inputs produce, rounding to 5 digits maps equal
\* cosines to equal values and keeps unequal ones apart and in order.
Similarity(u, v) ==
  LET d == Dot(u, v)
      p == Dot(u, u) * Dot(v, v)
      g == Gcd(d * d, p)
  IN  IF p = 0 \/ d = 0 THEN [sign |-> 0, num |-> 0, den |-> 1]
      ELSE [sign |-> IF d > 0 THEN 1 ELSE -1, num |-> (d * d) \div g, den |-> p \div g]

\* s > t as numbers
Greater(s, t) == s.sign * s.num * t.den > t.sign * t.num * s.den

\* sorted(similar_items, key=lambda item: item[1], reverse=True): a stable sort,
\* elements of equal similarity keep their order
SortedBySimilarity(similar_items) ==
  LET n == Len(similar_items)
      perm == CHOOSE f \in [1..n -> 1..n] :
                /\ \A i, j \in 1..n : i # j => f[i] # f[j]
                /\ \A i, j \in 1..n : i < j =>
                     \/ Greater(similar_items[f[i]][2], similar_items[f[j]][2])
                     \/ /\ similar_items[f[i]][2] = similar_items[f[j]][2]
                        /\ f[i] < f[j]
  IN  [i \in 1..n |-> similar_items[perm[i]]]

\* the inner loop: for idx2 in range(len(item_ids)): similar_items.append(...)
SimilarItems(embeddings, i1) ==
  [ i2 \in 1..Len(embeddings) |->
      <<songs(embeddings[i2].item),
        Similarity(embeddings[i1].embedding, embeddings[i2].embedding)>> ]

\* one pass of for idx1 in range(0, len(item_ids) - 1): the title and
\* similar_items[1:] are printed
ExploreItem ==
  /\ ppc = "explore"
  /\ idx1 < Len(item_embeddings) - 1
  /\ printed' = Append(printed,
                   [title |-> songs(item_embeddings[idx1 + 1].item),
                    similar |-> Tail(SortedBySimilarity(SimilarItems(item_embeddings, idx1 + 1)))])
  /\ idx1' = idx1 + 1
  /\ UNCHANGED <<song_embeddings, item_embeddings, ppc>>
  /\ UNCHANGED sqlvars

\* the range is exhausted
ExploreDone ==
  /\ ppc = "explore"
  /\ ~(idx1 < Len(item_embeddings) - 1)
  /\ ppc' = "done"
  /\ UNCHANGED <<song_embeddings, item_embeddings, idx1, printed>>
  /\ UNCHANGED sqlvars

\* ------------------------------------------------------------ specification
Init ==
  /\ vw_item_groups \in SUBSET [item_Id : Items, group_Id : Groups]
  /\ min_item_frequency = NULL
  /\ max_group_size = NULL
  /\ negative_sample_size = NULL
  /\ total = NULL
  /\ valid_item_groups = {}
  /\ item_cooc = EmptyBag
  /\ item_frequency = {}
  /\ item_matching_model = NULL
  /\ replaced = {}
  /\ item_cooc_columns = {}
  /\ pc = "idle"
  /\ calls = 0
  /\ err = ""
  /\ song_embeddings = <<>>
  /\ item_embeddings = <<>>
  /\ idx1 = 0
  /\ printed = <<>>
  /\ ppc = "idle"

\* the procedure as the notebook creates it
NextAsWritten ==
  \/ \E f \in MinItemFrequencies, s \in MaxGroupSizes : Call(f, s)
  \/ CreateValidItemGroups
  \/ CreatePairwiseCooc
  \/ CreateItemFrequency
  \/ SetTotal
  \/ CreateSelfPairs
  \/ IfUnrecognizedName
  \/ \E d \in Dimensions : TrainWithoutPmi(d)

\* the statements from the IF on, with the name negative_sample_size bound
NextBound ==
  \/ \E n \in NegativeSampleSizes : IfNegativeSampleSize(n)
  \/ CreateNegativeSamples
  \/ CreatePMI
  \/ \E d \in Dimensions : TrainCreated(d)
  \/ \E d \in Dimensions : TrainRefused(d)

Next == NextAsWritten \/ NextBound

SpecAsWritten == Init /\ [][NextAsWritten]_vars

\* the exploration cells, over the rows ML.WEIGHTS may return
InitExplore ==
  /\ vw_item_groups = {}
  /\ min_item_frequency = NULL
  /\ max_group_size = NULL
  /\ negative_sample_size = NULL
  /\ total = NULL
  /\ valid_item_groups = {}
  /\ item_cooc = EmptyBag
  /\ item_frequency = {}
  /\ item_matching_model = NULL
  /\ replaced = {}
  /\ item_cooc_columns = {}
  /\ pc = "idle"
  /\ calls = 0
  /\ err = ""
  /\ song_embeddings \in Results
  /\ item_embeddings = <<>>
  /\ idx1 = 0
  /\ printed = <<>>
  /\ ppc = "process_results"

NextExplore ==
  \/ ProcessResults
  \/ ExploreItem
  \/ ExploreDone

SpecExplore == InitExplore /\ [][NextExplore]_vars
Spec == Init /\ [][Next]_vars

\* the scenario of the specification: items 1, 2, 3 in group 1, items 1, 2 in group 2
Scenario ==
  { [item_Id |-> 1, group_Id |-> 1], [item_Id |-> 2, group_Id |-> 1],
    [item_Id |-> 3, group_Id |-> 1], [item_Id |-> 1, group_Id |-> 2],
    [item_Id |-> 2, group_Id |-> 2] }

\* the two procedures, the cell that calls sp_ComputePMI run again
NextRepeat ==
  \/ Next
  \/ \E f \in MinItemFrequencies, s \in MaxGroupSizes : CallAgain(f, s)

\* the views the repeated calls are examined on: every view that is part of
\* the scenario of the specification
RepeatViews == SUBSET Scenario

InitRepeat == Init /\ vw_item_groups \in RepeatViews

SpecRepeat == InitRepeat /\ [][NextRepeat]_vars

\* the exploration cells, over any rows
InitProcess ==
  /\ vw_item_groups = {}
  /\ min_item_frequency = NULL
  /\ max_group_size = NULL
  /\ negative_sample_size = NULL
  /\ total = NULL
  /\ valid_item_groups = {}
  /\ item_cooc = EmptyBag
  /\ item_frequency = {}
  /\ item_matching_model = NULL
  /\ replaced = {}
  /\ item_cooc_columns = {}
  /\ pc = "idle"
  /\ calls = 0
  /\ err = ""
  /\ song_embeddings \in AnyResults
  /\ item_embeddings = <<>>
  /\ idx1 = 0
  /\ printed = <<>>
  /\ ppc = "process_results"

SpecProcess == InitProcess /\ [][NextExplore]_vars

\* the two procedures over the views ScoreViews
InitScore ==
  /\ vw_item_groups \in ScoreViews
  /\ min_item_frequency = NULL
  /\ max_group_size = NULL
  /\ negative_sample_size = NULL
  /\ total = NULL
  /\ valid_item_groups = {}
  /\ item_cooc = EmptyBag
  /\ item_frequency = {}
  /\ item_matching_model = NULL
  /\ replaced = {}
  /\ item_cooc_columns = {}
  /\ pc = "idle"
  /\ calls = 0
  /\ err = ""
  /\ song_embeddings = <<>>
  /\ item_embeddings = <<>>
  /\ idx1 = 0
  /\ printed = <<>>
  /\ ppc = "idle"

SpecScore == InitScore /\ [][Next]_vars

\* ------------------------------------------------------------------ claims
Rows == BagToSet(item_cooc)

\* the call has stopped, at the END of the body or at the statement that failed
Ended == pc \in {"done", "error"}

\* the statement that creates valid_item_groups has run
Filtered == pc \notin {"idle", "valid_item_groups"}

\* item_cooc holds what the pairwise statement wrote
AfterPairwise == pc \in {"item_frequency", "total", "self_pairs"}

\* the self-pair statement has run
AfterSelfPairs ==
  pc \notin {"idle", "valid_item_groups", "pairwise_cooc", "item_frequency", "total",
             "self_pairs"}

\* C1 (as claimed): once sp_ComputePMI has ended, no row of item_cooc has
\* item1_Id >= item2_Id, the self-pair rows included.
C1_NoRowWithItem1GeItem2 ==
  Ended => \A r \in Rows : r.item1_Id < r.item2_Id

\* C1 (amended): no row of item_cooc ever has item1_Id > item2_Id; the rows the
\* pairwise statement writes have item1_Id < item2_Id; the rows with
\* item1_Id = item2_Id are the self pairs of the items of item_frequency.
C1_CanonicalOrdering ==
  /\ \A r \in Rows : r.item1_Id <= r.item2_Id
  /\ AfterPairwise => \A r \in Rows : r.item1_Id < r.item2_Id
  /\ AfterSelfPairs =>
       \A r \in Rows : r.item1_Id = r.item2_Id =>
          \E f \in item_frequency : f.item_Id = r.item1_Id

C1_Witness ==
  /\ Ended
  /\ \E r \in Rows : r.item1_Id < r.item2_Id
  /\ \E r \in Rows : r.item1_Id = r.item2_Id

\* the number of rows of the view with this item, with this group
FrequencyInView(i) == Cardinality({m \in vw_item_groups : m.item_Id = i})
SizeInView(g) == Cardinality({m \in vw_item_groups : m.group_Id = g})
\* the number of rows of the view with this group whose item has the minimum frequency
ValidSizeInView(g) ==
  Cardinality({m \in vw_item_groups :
                 m.group_Id = g /\ FrequencyInView(m.item_Id) >= min_item_frequency})

\* C2 (as claimed): valid_item_groups holds exactly the rows of the view whose
\* item has frequency >= min_item_frequency and whose group has between 2 and
\* max_group_size members, the size counted over all members of the group in the view.
C2_GroupSizeOverAllMembers ==
  Filtered =>
    valid_item_groups =
      { m \in vw_item_groups :
          /\ FrequencyInView(m.item_Id) >= min_item_frequency
          /\ SizeInView(m.group_Id) >= 2
          /\ SizeInView(m.group_Id) <= max_group_size }

\* C2 (amended): valid_item_groups holds exactly the rows of the view whose item
\* has frequency >= min_item_frequency in the view and whose group has between 2
\* and max_group_size members among the items of that frequency; one pass, so
\* nothing is recomputed from the rows that were kept.
C2_GroupSizeOverValidItems ==
  Filtered =>
    valid_item_groups =
      { m \in vw_item_groups :
          /\ FrequencyInView(m.item_Id) >= min_item_frequency
          /\ ValidSizeInView(m.group_Id) >= 2
          /\ ValidSizeInView(m.group_Id) <= max_group_size }

\* a group is kept although it has more than max_group_size members in the view
C2_Witness ==
  /\ Filtered
  /\ \E m \in valid_item_groups : SizeInView(m.group_Id) > max_group_size

\* the groups of valid_item_groups that hold both items
SharedGroups(a, b) ==
  { g \in Groups : /\ [item_Id |-> a, group_Id |-> g] \in valid_item_groups
                   /\ [item_Id |-> b, group_Id |-> g] \in valid_item_groups }

\* the rows of item_cooc for the pair (a, b), as (cooc, copies)
PairRows(a, b) ==
  { <<r.cooc, CopiesIn(r, item_cooc)>> : r \in {x \in Rows : x.item1_Id = a /\ x.item2_Id = b} }

InScenario ==
  /\ vw_item_groups = Scenario
  /\ pc = "self_pairs"
  /\ min_item_frequency = 1
  /\ max_group_size = 10

\* C3: after the pairwise statement, two items a < b that share k >= 1 groups of
\* valid_item_groups have one row with cooc = k, and a pair that shares no group
\* has no row; on the scenario of the specification cooc(1,2) = 2, cooc(1,3) = 1,
\* cooc(2,3) = 1, the frequencies are 2, 2, 1 and total is 5.
C3_CoocIsSharedGroupCount ==
  /\ AfterPairwise =>
       \A a \in Items, b \in Items :
          LET k == Cardinality(SharedGroups(a, b))
          IN  PairRows(a, b) = IF a < b /\ k > 0 THEN {<<k, 1>>} ELSE {}
  /\ InScenario =>
       /\ PairRows(1, 2) = {<<2, 1>>}
       /\ PairRows(1, 3) = {<<1, 1>>}
       /\ PairRows(2, 3) = {<<1, 1>>}
       /\ item_frequency = { [item_Id |-> 1, frequency |-> 2],
                             [item_Id |-> 2, frequency |-> 2],
                             [item_Id |-> 3, frequency |-> 1] }
       /\ total = <<5>>

C3_Witness == InScenario /\ PairRows(1, 2) = {<<2, 1>>}

\* the number of rows of valid_item_groups with this item
FrequencyAfterFilter(i) == Cardinality({m \in valid_item_groups : m.item_Id = i})

\* C4: once the self-pair statement has run, every item with a row in
\* item_frequency has one such row, holding the number of its rows in
\* valid_item_groups, and one self pair in item_cooc with that count; an item with
\* no row left in valid_item_groups has neither; total is the sum of the
\* frequencies, the number of rows of valid_item_groups (NULL when there is none).
C4_SelfPairIsFrequency ==
  AfterSelfPairs =>
    /\ \A i \in Items :
         LET n == FrequencyAfterFilter(i)
         IN  /\ {f \in item_frequency : f.item_Id = i} =
                  IF n > 0 THEN {[item_Id |-> i, frequency |-> n]} ELSE {}
             /\ PairRows(i, i) = IF n > 0 THEN {<<n, 1>>} ELSE {}
    /\ total = IF valid_item_groups = {} THEN NULL ELSE <<Cardinality(valid_item_groups)>>

\* an item whose frequency fell by the filter has its self pair, and an item
\* of the minimum frequency lost all its groups
C4_Witness ==
  /\ Ended
  /\ \E i \in Items : /\ FrequencyAfterFilter(i) > 0
                       /\ FrequencyAfterFilter(i) < FrequencyInView(i)
                       /\ PairRows(i, i) = {<<FrequencyAfterFilter(i), 1>>}
  /\ \E i \in Items : /\ FrequencyInView(i) >= min_item_frequency
                       /\ FrequencyInView(i) > 0
                       /\ FrequencyAfterFilter(i) = 0
\* item_cooc as the self-pair statement left it, recomputed from the tables it read
BeforeNegativeSamples == AddSelfPairs(PairwiseCooc(valid_item_groups), item_frequency)

\* the rows of item_cooc without the column pmi
CoocRowsOf(rows) ==
  { [item1_Id |-> r.item1_Id, item2_Id |-> r.item2_Id, cooc |-> r.cooc] : r \in rows }

\* C5 (as claimed): the negative-sampling block runs: the script does not stop at
\* it, and once it has run with negative_sample_size > 0, item_cooc holds, for some
\* choice of the top items, every earlier pair and every pair a < b of top items,
\* each once with the larger of its earlier count and 1.
C5_NegativeSamplesMergedByMax ==
  /\ pc = "error" =>
       err \notin {"Unrecognized name: negative_sample_size", "Name item not found inside a"}
  /\ (negative_sample_size # NULL /\ pc \in {"pmi", "done"}) =>
       (negative_sample_size[1] > 0 =>
          \E top \in TopItems(item_frequency, negative_sample_size[1]) :
             CoocRowsOf(Rows) = BagToSet(MaxMerged(BeforeNegativeSamples, top)))

\* C8 (as claimed): a call with min_item_frequency < 1 or max_group_size < 2 creates
\* or replaces no table, and no model is created with a negative number of factors.
C8_InvalidConfigurationRejectedAtEntry ==
  /\ (pc # "idle" /\ (min_item_frequency < 1 \/ max_group_size < 2)) => replaced = {}
  /\ item_matching_model # NULL => item_matching_model[1].num_factors >= 0

\* C9: when the PMI statement is due, every row of item_cooc has cooc >= 1 and
\* each of its two items has a row in item_frequency with frequency >= 1, and
\* total >= 1 if there is a row; the statement never stops with a LOG error, and
\* the table it creates has a row for every row it read, every argument of LOG
\* in it >= 1.
C9_LogArgumentsPositive ==
  /\ pc = "pmi" =>
       /\ \A r \in Rows :
            /\ r.cooc >= 1
            /\ \E f \in item_frequency : f.item_Id = r.item1_Id /\ f.frequency >= 1
            /\ \E f \in item_frequency : f.item_Id = r.item2_Id /\ f.frequency >= 1
            /\ \A f \in item_frequency : f.frequency >= 1
       /\ Rows # {} => (total # NULL /\ total[1] >= 1)
  /\ err # "LOG is undefined for zero or negative value"
  /\ (pc = "done" /\ negative_sample_size = <<0>>) =>
       /\ CoocRowsOf(Rows) = BagToSet(BeforeNegativeSamples)
       /\ BagCardinality(item_cooc) = BagCardinality(BeforeNegativeSamples)
       /\ \A r \in Rows :
            /\ r.pmi.cooc >= 1 /\ r.pmi.freq1 >= 1 /\ r.pmi.freq2 >= 1
            /\ r.pmi.total # NULL /\ r.pmi.total[1] >= 1

\* the PMI statement has run over a table with a pair of two items
C9_Witness ==
  /\ pc = "done"
  /\ \E r \in Rows : r.item1_Id < r.item2_Id /\ r.pmi.total # NULL

\* one of the two filters of the first statement yields no row
EmptyFilter ==
  LET vi == valid_items(vw_item_groups, min_item_frequency)
  IN  vi = {} \/ valid_groups(vw_item_groups, vi, max_group_size) = {}

\* C10 (as claimed): when a filter yields no row, the call ends without an error
\* and leaves valid_item_groups, item_frequency and item_cooc empty.
C10_EmptyFilterRunsToCompletion ==
  (Ended /\ EmptyFilter) =>
    /\ pc = "done"
    /\ err = ""
    /\ valid_item_groups = {}
    /\ item_frequency = {}
    /\ item_cooc = EmptyBag

\* the (row, entry) positions of song_embeddings that hold a weight of this item
WeightPositions(item) ==
  { q \in (1..Len(song_embeddings)) \X (1..2) :
      /\ song_embeddings[q[1]].feature = item
      /\ q[2] <= Len(song_embeddings[q[1]].factor_weights) }

FactorAt(q) == song_embeddings[q[1]].factor_weights[q[2]].factor

RECURSIVE SumWeights(_)
SumWeights(Q) ==
  IF Q = {} THEN 0
  ELSE LET q == CHOOSE x \in Q : TRUE
       IN  song_embeddings[q[1]].factor_weights[q[2]].weight + SumWeights(Q \ {q})

\* process_results has just returned
Processed == ppc = "explore" /\ idx1 = 0

SingleRow == << [feature |-> 1, factor_weights |-> << [factor |-> 1, weight |-> 2] >>] >>

\* C7: process_results returns one vector per distinct feature of its input, of
\* length EmbeddingLength, whose entry i - 1 is the sum of the weights of all
\* entries with factor i over all rows of that feature (0 where there is none);
\* the single row {feature X, factor 1, weight 2} gives [2, 0, ..., 0].
C7_EmbeddingIsSumOfWeights ==
  Processed =>
    /\ {item_embeddings[k].item : k \in 1..Len(item_embeddings)} =
         {song_embeddings[r].feature : r \in 1..Len(song_embeddings)}
    /\ \A k, l \in 1..Len(item_embeddings) :
         item_embeddings[k].item = item_embeddings[l].item => k = l
    /\ \A k \in 1..Len(item_embeddings) :
         LET Q == WeightPositions(item_embeddings[k].item)
             F == {FactorAt(q) : q \in Q}
         IN  /\ DOMAIN item_embeddings[k].embedding = 0..(EmbeddingLength - 1)
             /\ \A i \in 1..EmbeddingLength :
                  item_embeddings[k].embedding[i - 1] =
                    IF i \in F THEN SumWeights({q \in Q : FactorAt(q) = i}) ELSE 0
    /\ song_embeddings = SingleRow =>
         item_embeddings =
           << [item |-> 1,
               embedding |-> [i \in 0..(EmbeddingLength - 1) |-> IF i = 0 THEN 2 ELSE 0]] >>

\* two rows of one feature both hold a weight for factor 1, and the two are added
C7_Witness ==
  /\ Processed
  /\ Len(song_embeddings) = 2
  /\ song_embeddings[1].feature = song_embeddings[2].feature
  /\ \A r \in 1..2 : song_embeddings[r].factor_weights = << [factor |-> 1, weight |-> 2] >>
  /\ item_embeddings[1].embedding[0] = 4

\* the similarity of two keys of item_embeddings
SimilarityOf(k, l) == Similarity(item_embeddings[k].embedding, item_embeddings[l].embedding)

\* the printed list is the ranking of key k: every other key once, not k itself,
\* in descending similarity to k
IsRankingOf(similar, k) ==
  /\ Len(similar) = Len(item_embeddings) - 1
  /\ \A l \in 1..Len(item_embeddings) :
       Cardinality({j \in 1..Len(similar) : similar[j][1] = songs(item_embeddings[l].item)}) =
         IF l = k THEN 0 ELSE 1
  /\ \A l \in 1..Len(item_embeddings), j \in 1..Len(similar) :
       similar[j][1] = songs(item_embeddings[l].item) => similar[j][2] = SimilarityOf(k, l)
  /\ \A i, j \in 1..Len(similar) : i < j => ~Greater(similar[j][2], similar[i][2])

\* C6 (as claimed): when the exploration loop has ended, every key of
\* item_embeddings has one printed ranking, holding every other key once, in
\* descending similarity, and not the key itself.
C6_EveryItemRanked ==
  ppc = "done" =>
    \A k \in 1..Len(item_embeddings) :
       /\ Cardinality({p \in 1..Len(printed) :
                          printed[p].title = songs(item_embeddings[k].item)}) = 1
       /\ \A p \in 1..Len(printed) :
            printed[p].title = songs(item_embeddings[k].item) =>
              IsRankingOf(printed[p].similar, k)

\* the sign of cooc * total - freq1 * freq2
ChanceSign(cooc, freq1, freq2, tot) ==
  IF cooc * tot > freq1 * freq2 THEN 1
  ELSE IF cooc * tot < freq1 * freq2 THEN -1
  ELSE 0

\* the frequency item_frequency holds for an item
FrequencyOf(i) == (CHOOSE f \in item_frequency : f.item_Id = i).frequency

\* the trainer was handed a row for every row of item_cooc, as often as it occurs
EveryRowHandedToTrainer ==
  LET input == item_matching_model[1].input
  IN  /\ BagCardinality(input) = BagCardinality(item_cooc)
      /\ \A r \in Rows :
           \E o \in BagToSet(input) :
              /\ o.item1_Id = r.item1_Id /\ o.item2_Id = r.item2_Id
              /\ o.score.cooc = r.cooc /\ o.score.pmi = r.pmi
      /\ \A i \in {f.item_Id : f \in item_frequency} :
           \E o \in BagToSet(input) : o.item1_Id = i /\ o.item2_Id = i

\* C11 (as claimed): a call of sp_TrainItemMatchingModel hands the trainer a row
\* for every row of item_cooc, the self pairs included, and the score of each row,
\* in the training input and in the view, is negative exactly when cooc * total <
\* freq1 * freq2, zero exactly when the two are equal, and positive otherwise.
C11_ScoreIsCoocTimesPmi ==
  /\ pc = "train_error" => err # "Unrecognized name: pmi"
  /\ item_matching_model # NULL =>
       /\ EveryRowHandedToTrainer
       /\ \A o \in BagToSet(item_matching_model[1].input) :
            ScoreSign(o.score) =
              <<ChanceSign(o.score.cooc, FrequencyOf(o.item1_Id), FrequencyOf(o.item2_Id),
                           total[1])>>
  /\ pc = "done" =>
       \A v \in CoocView(item_cooc, item_frequency) :
          ScoreSign(v.score) = <<ChanceSign(v.cooc, v.freq1, v.freq2, total[1])>>

\* what holds of the scores where the PMI statement runs: every row of item_cooc
\* is handed to the trainer, and a score is negative if cooc * total < freq1 *
\* freq2 and positive if cooc * total > freq1 * freq2
ScoreSignWhereUnequal ==
  item_matching_model # NULL =>
    /\ EveryRowHandedToTrainer
    /\ \A o \in BagToSet(item_matching_model[1].input) :
         LET s == ChanceSign(o.score.cooc, FrequencyOf(o.item1_Id), FrequencyOf(o.item2_Id),
                             total[1])
         IN  s # 0 => ScoreSign(o.score) = <<s>>

\* a pair that co-occurs exactly as often as chance has the score 0
ScoreZeroWhereEqual ==
  item_matching_model # NULL =>
    \A o \in BagToSet(item_matching_model[1].input) :
       ChanceSign(o.score.cooc, FrequencyOf(o.item1_Id), FrequencyOf(o.item2_Id),
                  total[1]) = 0
         => ScoreSign(o.score) = <<0>>

\* the trainer was handed a negative score
NegativeScoreHanded ==
  /\ item_matching_model # NULL
  /\ \E o \in BagToSet(item_matching_model[1].input) : ScoreSign(o.score) = <<-1>>

\* the factors of the entries of song_embeddings
FactorsRead ==
  { FactorAt(q) : q \in UNION {WeightPositions(f) : f \in FeatureIds} }

\* C12 (as claimed): every factor the trainer exports for NumFactors factors has
\* its position factor - 1 inside the list, and process_results returns only if
\* every entry it read has its position factor - 1 in 0..EmbeddingLength - 1;
\* each position i of a returned vector then holds the weights of the entries
\* with factor i + 1 and no other weight.
C12_WritesLandAtOwnFactor ==
  /\ \A f \in 1..NumFactors : ListIndex(f - 1, EmbeddingLength) = <<f - 1>>
  /\ Processed =>
       /\ \A f \in FactorsRead : f - 1 \in 0..(EmbeddingLength - 1)
       /\ \A k \in 1..Len(item_embeddings) :
            LET Q == WeightPositions(item_embeddings[k].item)
            IN  \A i \in 0..(EmbeddingLength - 1) :
                   item_embeddings[k].embedding[i] = SumWeights({q \in Q : FactorAt(q) = i + 1})

\* process_results stops with an IndexError exactly when an entry has a factor
\* above EmbeddingLength or below 1 - EmbeddingLength
IndexErrorBeyondBothEnds ==
  ppc # "process_results" =>
    ((ppc = "error") <=>
       \E f \in FactorsRead : f > EmbeddingLength \/ f < 1 - EmbeddingLength)

\* a weight with factor 0 was added at the last position of a returned vector
FactorZeroAtLastPosition ==
  /\ Processed
  /\ song_embeddings =
       << [feature |-> 1, factor_weights |-> << [factor |-> 0, weight |-> 2] >>] >>
  /\ item_embeddings[1].embedding[EmbeddingLength - 1] = 2

\* the three tables hold what one call leaves for the view and the arguments of
\* the call: the rows of the view that pass the filter, the frequency of each
\* item in them, and one row for each pair of items that share a group and one
\* self pair for each item, each once
TablesOfOneCall ==
  /\ valid_item_groups =
       { m \in vw_item_groups :
           /\ FrequencyInView(m.item_Id) >= min_item_frequency
           /\ ValidSizeInView(m.group_Id) >= 2
           /\ ValidSizeInView(m.group_Id) <= max_group_size }
  /\ item_frequency =
       { [item_Id |-> i, frequency |-> FrequencyAfterFilter(i)] :
           i \in {j \in Items : FrequencyAfterFilter(j) > 0} }
  /\ \A a \in Items, b \in Items :
       LET k == Cardinality(SharedGroups(a, b))
           n == FrequencyAfterFilter(a)
       IN  PairRows(a, b) = IF a < b /\ k > 0 THEN {<<k, 1>>}
                            ELSE IF a = b /\ n > 0 THEN {<<n, 1>>}
                            ELSE {}
  /\ \A r \in Rows : r.item1_Id \in Items /\ r.item2_Id \in Items

\* C13: no step of sp_ComputePMI changes vw_item_groups, and whenever a call has
\* ended, the first or a later one, whatever the tables held before it,
\* valid_item_groups, item_frequency and item_cooc hold what a single call leaves
\* for the view and the arguments of that call, with no row twice.
C13_CallsLeaveTheTablesOfOneCall ==
  /\ [][vw_item_groups' = vw_item_groups]_vars
  /\ [](Ended => TablesOfOneCall)

\* a second call has ended; it found the tables of an earlier call in place and
\* left a pair and a self pair in item_cooc
C13_Witness ==
  /\ calls = MaxCalls
  /\ Ended
  /\ \E r \in Rows : r.item1_Id < r.item2_Id
  /\ \E r \in Rows : r.item1_Id = r.item2_Id

\* during a later call a table still holds the rows of the call before it
StaleTableDuringCall ==
  /\ calls = MaxCalls
  /\ pc = "pairwise_cooc"
  /\ item_frequency # ItemFrequency(valid_item_groups)
  /\ item_cooc # EmptyBag
====
